---- MODULE Spec2Model ----
(***************************************************************************)
(* Model of arris_stats.py: the poll loop of main(), the modem             *)
(* authentication (get_credential), the status page fetch (get_html), the  *)
(* SB8200 table parser (parse_html_sb8200), the InfluxDB dispatch          *)
(* (send_to_influx) and error_exit.                                        *)
(*                                                                         *)
(* Text is modelled by TLA+ strings; an HTML document by the sequence of   *)
(* its top-level elements (text chunks and tables of rows of cells).       *)
(* Python's None is the record None; a raised exception is a result with   *)
(* raised = TRUE.                                                          *)
(***************************************************************************)
EXTENDS Integers, Sequences, FiniteSets, TLC

VARIABLES config, pc, first, credential, html, stats, exitCode, ev, sent,
          sinceCred, sinceHtml, authResp, rawHtml, repairs

vars == <<config, pc, first, credential, html, stats, exitCode, ev, sent,
          sinceCred, sinceHtml, authResp, rawHtml, repairs>>

(***************************************************************************)
(* Bounds of the model.                                                    *)
(***************************************************************************)
\* Longest list of rows of one table of a fetched page.
MaxRows == 1

\* Longest list of rows of one table of a page given to the parser alone.
MaxParseRows == 2

\* Largest number of markup fragments of a raw page given to the repair alone.
MaxFragments == 3

\* Largest number of times the repair is applied to a raw page in a row.
MaxRepairs == 2

(***************************************************************************)
(* Python values.                                                          *)
(***************************************************************************)
None == [none |-> TRUE]

Some(v) == [none |-> FALSE, v |-> v]

\* HTTP status codes the modem answers with: success and one failure.
StatusCodes == {200, 500}

\* default_config['sleep_interval']
DefaultSleepInterval == 300

(***************************************************************************)
(* Strings: str.strip, str.isdigit, the "in" operator, int() and float().  *)
(***************************************************************************)
Digits == {"0", "1", "2", "3", "4", "5", "6", "7", "8", "9"}

Whitespace == {" ", "\t", "\n"}

CharAt(s, i) == SubSeq(s, i, i)

RECURSIVE LStrip(_)
LStrip(s) == IF Len(s) > 0 /\ CharAt(s, 1) \in Whitespace THEN LStrip(SubSeq(s, 2, Len(s))) ELSE s

RECURSIVE RStrip(_)
RStrip(s) == IF Len(s) > 0 /\ CharAt(s, Len(s)) \in Whitespace THEN RStrip(SubSeq(s, 1, Len(s) - 1)) ELSE s

strip(s) == RStrip(LStrip(s))

isdigit(s) == Len(s) > 0 /\ \A i \in 1..Len(s) : CharAt(s, i) \in Digits

\* pat in s
Contains(s, pat) == \E i \in 1..(Len(s) - Len(pat) + 1) : SubSeq(s, i, i + Len(pat) - 1) = pat

\* s.replace(old, new): every occurrence, left to right, non-overlapping.
RECURSIVE replace(_, _, _)
replace(s, old, new) ==
    IF Len(s) < Len(old) THEN s
    ELSE IF SubSeq(s, 1, Len(old)) = old
         THEN new \o replace(SubSeq(s, Len(old) + 1, Len(s)), old, new)
         ELSE CharAt(s, 1) \o replace(SubSeq(s, 2, Len(s)), old, new)

\* s.replace(old, new, count): the first count occurrences only.
RECURSIVE replace_count(_, _, _, _)
replace_count(s, old, new, count) ==
    IF count <= 0 \/ Len(s) < Len(old) THEN s
    ELSE IF SubSeq(s, 1, Len(old)) = old
         THEN new \o replace_count(SubSeq(s, Len(old) + 1, Len(s)), old, new, count - 1)
         ELSE CharAt(s, 1) \o replace_count(SubSeq(s, 2, Len(s)), old, new, count)

Unsigned(s) == IF Len(s) > 0 /\ CharAt(s, 1) \in {"+", "-"} THEN SubSeq(s, 2, Len(s)) ELSE s

\* int(s) raises ValueError unless s is, up to surrounding whitespace, an
\* optionally signed run of digits.
IntOk(s) == isdigit(Unsigned(strip(s)))

\* float(s) raises ValueError unless s is, up to surrounding whitespace, an
\* optionally signed decimal numeral with at most one point and a digit.
FloatOk(s) ==
    LET u == Unsigned(strip(s))
        points == {i \in 1..Len(u) : CharAt(u, i) = "."}
    IN  /\ Cardinality(points) <= 1
        /\ \E i \in 1..Len(u) : CharAt(u, i) \in Digits
        /\ \A i \in 1..Len(u) : CharAt(u, i) \in Digits \cup {"."}

DigitVal(c) == CHOOSE n \in 0..9 : SubSeq("0123456789", n + 1, n + 1) = c

RECURSIVE NatVal(_)
NatVal(s) == IF Len(s) = 0 THEN 0 ELSE 10 * NatVal(SubSeq(s, 1, Len(s) - 1)) + DigitVal(CharAt(s, Len(s)))

\* The value of int(s) when IntOk(s).
IntVal(s) ==
    LET t == strip(s)
    IN  IF Len(t) > 0 /\ CharAt(t, 1) = "-" THEN 0 - NatVal(Unsigned(t)) ELSE NatVal(Unsigned(t))

\* The value of float(s) when FloatOk(s), as a decimal: num / 10^scale
\* (TLA+ has no reals).
FloatVal(s) ==
    LET t == strip(s)
        u == Unsigned(t)
        p == IF \E i \in 1..Len(u) : CharAt(u, i) = "." THEN CHOOSE i \in 1..Len(u) : CharAt(u, i) = "." ELSE Len(u) + 1
        mag == NatVal(SubSeq(u, 1, p - 1) \o SubSeq(u, p + 1, Len(u)))
    IN  [num |-> IF Len(t) > 0 /\ CharAt(t, 1) = "-" THEN 0 - mag ELSE mag,
         scale |-> IF p > Len(u) THEN 0 ELSE Len(u) - p]

(***************************************************************************)
(* get_config: the configurations main() may run under.  The policy flags  *)
(* are booleans after str_to_bool; modem_password keeps its default None   *)
(* unless set; modem_model and destination are free text.                  *)
(***************************************************************************)
AllConfigs ==
    [modem_auth_required : BOOLEAN,
     modem_new_auth : BOOLEAN,
     modem_username : {"admin"},
     modem_password : {None, Some("pw")},
     modem_model : {"sb8200", "sb6183"},
     destination : {"influxdb", "stdout"},
     exit_on_auth_error : BOOLEAN,
     exit_on_html_error : BOOLEAN,
     clear_auth_token_on_html_error : BOOLEAN,
     sleep_before_exit : BOOLEAN,
     sleep_interval : {DefaultSleepInterval}]

\* The authentication options keep their defaults when authentication is not
\* required (no code reads them then).
Configs ==
    {c \in AllConfigs :
        ~c.modem_auth_required =>
            /\ ~c.modem_new_auth
            /\ c.modem_password = None
            /\ c.exit_on_auth_error}

(***************************************************************************)
(* Events a step performs, in order: the calls main() makes that the       *)
(* outside can observe (time.sleep, the HTTP requests, the sink write,     *)
(* sys.exit, an uncaught exception), each call with what it returned       *)
(* ("None", "empty" for a falsy value, "value", or "raised") and the       *)
(* errors and warnings it logged.                                          *)
(***************************************************************************)
Event(op, ret, log) == [op |-> op, secs |-> 0, ret |-> ret, log |-> log]

SleepEvent(secs) == [op |-> "sleep", secs |-> secs, ret |-> "", log |-> <<>>]

Sleeps(events) == Cardinality({i \in 1..Len(events) : events[i].op = "sleep"})

(***************************************************************************)
(* error_exit(message, config=None, sleep=True): the events up to          *)
(* sys.exit(1).  cfg is None when the caller passes no config.             *)
(***************************************************************************)
\* Mutant: sleep_before_exit is not read.
error_exit_AlwaysSleeps(cfg, sleep) ==
    <<Event("error_exit", "", <<>>)>>
    \o (IF sleep /\ cfg # None THEN <<SleepEvent(cfg.v.sleep_interval)>> ELSE <<>>)
    \o <<Event("sys.exit", "", <<>>)>>

error_exit(cfg, sleep) ==
    <<Event("error_exit", "", <<>>)>>
    \o (IF sleep /\ cfg # None /\ cfg.v.sleep_before_exit
        THEN <<SleepEvent(cfg.v.sleep_interval)>>
        ELSE <<>>)
    \o <<Event("sys.exit", "", <<>>)>>

(***************************************************************************)
(* The modem's answers to the authentication request.  raises: the         *)
(* requests.get call raised; sessionId: the session cookie of the answer,  *)
(* None when the answer carries none; text: the answer's body.             *)
(***************************************************************************)
LoginPage == "<html>Password:</html>"

AuthResponses ==
    [raises : BOOLEAN,
     status_code : StatusCodes,
     sessionId : {None, Some("sid")},
     text : {"tok1", LoginPage}]

\* What a call does: return value (with the errors and warnings it logged)
\* or raise.
Returned(v, log) == [raised |-> FALSE, value |-> v, log |-> log]

Raised(log) == [raised |-> TRUE, value |-> None, log |-> log]

\* What the caller sees of a call of a function whose values are all truthy.
Ret(r) == IF r.raised THEN "raised" ELSE IF r.value = None THEN "None" ELSE "value"

\* Messages of logging.error and logging.warning.
AuthError == "Error authenticating"

LoginPageError == "Authentication error, received login page."

HtmlError == "Error retreiving html"

AuthNotRequiredWarning == "You have modem_auth_required to False, but a login page was detected!"

NoDownstreamError == "Failed to get any downstream stats!"

NoUpstreamError == "Failed to get any upstream stats!"

WriteError == "Failed To Write To InfluxDB"

(***************************************************************************)
(* get_credential(config), given the modem's answer resp.                  *)
(***************************************************************************)
\* Mutant: the answer's body is the token whatever it holds.
get_credential_AnyBody(cfg, resp) ==
    IF cfg.modem_password = None
    THEN Raised(<<>>)
    ELSE IF resp.raises THEN Returned(None, <<AuthError>>)
    ELSE IF cfg.modem_new_auth /\ resp.sessionId = None THEN Returned(None, <<AuthError>>)
    ELSE IF resp.status_code # 200 THEN Returned(None, <<AuthError>>)
    ELSE Returned(Some([token |-> resp.text,
                        cookie |-> IF cfg.modem_new_auth THEN resp.sessionId ELSE None]), <<>>)
get_credential(cfg, resp) ==
    IF cfg.modem_password = None
    THEN Raised(<<>>) \* username + ":" + None: TypeError, outside the try
    ELSE IF resp.raises THEN Returned(None, <<AuthError>>)
    ELSE IF cfg.modem_new_auth /\ resp.sessionId = None THEN Returned(None, <<AuthError>>) \* KeyError, caught
    ELSE IF resp.status_code # 200 THEN Returned(None, <<AuthError>>)
    ELSE IF Contains(resp.text, "Password:") THEN Returned(None, <<LoginPageError>>)
    ELSE Returned(Some([token |-> resp.text,
                        cookie |-> IF cfg.modem_new_auth THEN resp.sessionId ELSE None]), <<>>)

(***************************************************************************)
(* HTML documents.  A document is the sequence of its top-level elements;  *)
(* an element is a text chunk or a table; a table is its sequence of <tr>  *)
(* rows; a row has header cells (th) or not and its <td> cell texts.       *)
(***************************************************************************)
TextElement(t) == [tag |-> "text", text |-> t, rows |-> <<>>]

Table(rows) == [tag |-> "table", text |-> "", rows |-> rows]

HeaderRow == [th |-> TRUE, td |-> <<>>]

\* A downstream row: Channel ID, Lock Status, Modulation, Frequency, Power,
\* SNR/MER, Corrected, Uncorrectables.
DownRow(id, freq) == [th |-> FALSE, td |-> <<id, "Locked", "Other", freq, "1.2 dBmV", "38.1 dB", "10", "0">>]

\* An upstream row: Channel, Channel ID, Lock Status, US Channel Type,
\* Frequency, Width, Power.
UpRow(id) == [th |-> FALSE, td |-> <<"1", id, "Locked", "OFDM Upstream", "30 Hz", "64 Hz", "41.0 dBmV">>]

\* A row with too few cells.
ShortRow == [th |-> FALSE, td |-> <<"1">>]

DownRows == {HeaderRow, DownRow(" 1 ", "600 Hz"), DownRow("Channel ID", "Frequency"), DownRow("2", "n/a"), ShortRow}

UpRows == {HeaderRow, UpRow("3"), UpRow("Channel ID"), ShortRow}

SeqsUpTo(S, n) == UNION {[1..k -> S] : k \in 0..n}

\* The status pages with up to maxrows rows in a table: the startup table,
\* then the downstream and the upstream table, cut to the first n of them.
PagesUpTo(maxrows) ==
    {SubSeq(<<Table(<<HeaderRow>>), Table(d), Table(u)>>, 1, n) :
        d \in SeqsUpTo(DownRows, maxrows), u \in SeqsUpTo(UpRows, maxrows), n \in 1..3}

StatusPages == PagesUpTo(MaxRows)

\* The bodies a fetch may return: nothing, the login page, a status page.
Bodies == {<<>>, <<TextElement(LoginPage)>>} \cup StatusPages

\* pat in html: in a text chunk or in a cell of a table.
InDocument(pat, doc) ==
    \E i \in 1..Len(doc) :
        \/ Contains(doc[i].text, pat)
        \/ \E j \in 1..Len(doc[i].rows) : \E k \in 1..Len(doc[i].rows[j].td) : Contains(doc[i].rows[j].td[k], pat)

(***************************************************************************)
(* The modem's answers to the status page request.  decodes: the body is   *)
(* valid UTF-8.  Every body comes with status 200; the failing answers     *)
(* (a raised request, another status, an undecodable body) come with the   *)
(* two bodies that carry no table.                                         *)
(***************************************************************************)
HtmlResponses ==
    [raises : {FALSE}, status_code : {200}, decodes : {TRUE}, content : Bodies]
    \cup [raises : BOOLEAN, status_code : StatusCodes, decodes : BOOLEAN, content : {<<>>, <<TextElement(LoginPage)>>}]

\* The bodies with 'Password:' in status_html (line 263), found once.
LoginBodies == {b \in Bodies : InDocument("Password:", b)}

(***************************************************************************)
(* get_html(config, credential), given the modem's answer resp.            *)
(***************************************************************************)
\* Mutant: the token is read whether authentication is required or not.
html_request_AlwaysToken(cfg, cred) ==
    IF cred = None
    THEN Raised(<<>>)
    ELSE Returned(Some([url |-> "?ct_" \o cred.v.token,
                        cookies |-> Some([name |-> "credential", value |-> Some(cred.v.token)])]), <<>>)

\* Lines 231-245: the url (its suffix after modem_url) and the cookies of
\* the request; the credential is read only if authentication is required.
html_request(cfg, cred) ==
    IF cfg.modem_auth_required /\ cred = None
    THEN Raised(<<>>) \* None['token']: TypeError, before the try
    ELSE Returned(Some([url |-> IF cfg.modem_auth_required /\ cfg.modem_new_auth
                                THEN "?ct_" \o cred.v.token ELSE "",
                        cookies |-> IF cfg.modem_auth_required /\ ~cfg.modem_new_auth
                                    THEN Some([name |-> "credential", value |-> Some(cred.v.token)])
                                    ELSE IF cfg.modem_auth_required /\ cfg.modem_new_auth
                                    THEN Some([name |-> "sessionId", value |-> cred.v.cookie])
                                    ELSE None]), <<>>)

get_html(cfg, cred, resp) ==
    IF html_request(cfg, cred).raised
    THEN Raised(<<>>)
    ELSE IF resp.raises THEN Returned(None, <<HtmlError>>)
    ELSE IF resp.status_code # 200 THEN Returned(None, <<HtmlError>>)
    ELSE IF ~resp.decodes THEN Returned(None, <<HtmlError>>) \* UnicodeDecodeError, caught
    ELSE IF resp.content \in LoginBodies
    THEN Returned(None, <<LoginPageError>> \o (IF cfg.modem_auth_required THEN <<>> ELSE <<AuthNotRequiredWarning>>))
    ELSE Returned(Some(resp.content), <<>>)

(***************************************************************************)
(* The markup repair of parse_html_sb8200 (line 281), on the raw text of   *)
(* the page: the extra </tr> of the first RepairCount table headers is     *)
(* removed before the text is given to BeautifulSoup.  The documents of    *)
(* the parser below are what BeautifulSoup builds from the repaired text.  *)
(***************************************************************************)
BrokenHeader == "Bonded Channels</strong></th></tr>"

RepairedHeader == "Bonded Channels</strong></th>"

RepairCount == 2

\* Mutant: only the first header is repaired.
repair_FirstOnly(text) == replace_count(text, BrokenHeader, RepairedHeader, 1)

repair(text) == replace_count(text, BrokenHeader, RepairedHeader, RepairCount)

\* The raw pages: up to MaxFragments pieces of markup in a row.
Fragments == {BrokenHeader, "</tr>", "<td>1</td>"}

RECURSIVE Join(_)
Join(pieces) == IF pieces = <<>> THEN "" ELSE Head(pieces) \o Join(Tail(pieces))

RawPages == {Join(pieces) : pieces \in SeqsUpTo(Fragments, MaxFragments)}

(***************************************************************************)
(* parse_html_sb8200(html).  The loops are run row by row on the state     *)
(* [raised, channel_id, rows]: channel_id is the function's local          *)
(* variable, None while unbound, and is shared by the two loops.           *)
(***************************************************************************)
Tables(doc) == SelectSeq(doc, LAMBDA e : e.tag = "table")

\* One pass of the downstream loop body over table_row.
DownstreamRow(st, row) ==
    IF st.raised \/ row.th THEN st
    ELSE IF Len(row.td) < 1 THEN [st EXCEPT !.raised = TRUE] \* IndexError
    ELSE LET channel_id == strip(row.td[1])
         IN  IF ~isdigit(channel_id) THEN [st EXCEPT !.channel_id = Some(channel_id)]
             ELSE IF Len(row.td) < 8 THEN [raised |-> TRUE, channel_id |-> Some(channel_id), rows |-> st.rows]
             ELSE [raised |-> FALSE,
                   channel_id |-> Some(channel_id),
                   rows |-> Append(st.rows,
                       [channel_id |-> channel_id,
                        modulation |-> strip(replace(row.td[3], "Other", "OFDM PLC")),
                        frequency |-> strip(replace(row.td[4], " Hz", "")),
                        power |-> strip(replace(row.td[5], " dBmV", "")),
                        snr |-> strip(replace(row.td[6], " dB", "")),
                        corrected |-> strip(row.td[7]),
                        uncorrectables |-> strip(row.td[8])])]

\* Mutant: the upstream loop tests the row's own channel id.
UpstreamRow_OwnId(st, row) ==
    IF st.raised \/ row.th THEN st
    ELSE IF Len(row.td) < 2 THEN [st EXCEPT !.raised = TRUE]
    ELSE LET channel_id == strip(row.td[2])
         IN  IF ~isdigit(channel_id) THEN [st EXCEPT !.channel_id = Some(channel_id)]
             ELSE IF Len(row.td) < 7 THEN [st EXCEPT !.raised = TRUE]
             ELSE [raised |-> FALSE,
                   channel_id |-> Some(channel_id),
                   rows |-> Append(st.rows,
                       [channel_id |-> channel_id,
                        channel_type |-> strip(replace(replace(row.td[4], " Upstream", ""), "OFDM", "OFDMA")),
                        frequency |-> strip(replace(row.td[5], " Hz", "")),
                        power |-> strip(replace(row.td[7], " dBmV", ""))])]

\* One pass of the upstream loop body over table_row: the digit test reads
\* channel_id before the row's own id is assigned to it.
UpstreamRow(st, row) ==
    IF st.raised \/ row.th THEN st
    ELSE IF st.channel_id = None THEN [st EXCEPT !.raised = TRUE] \* UnboundLocalError
    ELSE IF ~isdigit(st.channel_id.v) THEN st
    ELSE IF Len(row.td) < 7 THEN [st EXCEPT !.raised = TRUE] \* IndexError
    ELSE LET channel_id == strip(row.td[2])
         IN  [raised |-> FALSE,
              channel_id |-> Some(channel_id),
              rows |-> Append(st.rows,
                  [channel_id |-> channel_id,
                   channel_type |-> strip(replace(replace(row.td[4], " Upstream", ""), "OFDM", "OFDMA")),
                   frequency |-> strip(replace(row.td[5], " Hz", "")),
                   power |-> strip(replace(row.td[7], " dBmV", ""))])]

\* for table_row in soup.find_all("table")[1].find_all("tr"), from row i on.
RECURSIVE DownstreamLoop(_, _, _)
DownstreamLoop(st, rows, i) == IF i > Len(rows) THEN st ELSE DownstreamLoop(DownstreamRow(st, rows[i]), rows, i + 1)

\* for table_row in soup.find_all("table")[2].find_all("tr"), from row i on.
RECURSIVE UpstreamLoop(_, _, _)
UpstreamLoop(st, rows, i) == IF i > Len(rows) THEN st ELSE UpstreamLoop(UpstreamRow(st, rows[i]), rows, i + 1)

parse_html_sb8200(doc) ==
    LET tables == Tables(doc)
    IN  IF Len(tables) < 2 THEN Raised(<<>>) \* soup.find_all("table")[1]: IndexError
        ELSE LET down == DownstreamLoop([raised |-> FALSE, channel_id |-> None, rows |-> <<>>], tables[2].rows, 1)
                 downlog == IF down.rows = <<>> THEN <<NoDownstreamError>> ELSE <<>>
             IN  IF down.raised THEN Raised(<<>>)
                 ELSE IF Len(tables) < 3 THEN Raised(downlog) \* soup.find_all("table")[2]: IndexError
                 ELSE LET up == UpstreamLoop([raised |-> FALSE, channel_id |-> down.channel_id, rows |-> <<>>], tables[3].rows, 1)
                          uplog == IF up.rows = <<>> THEN <<NoUpstreamError>> ELSE <<>>
                      IN  IF up.raised THEN Raised(downlog)
                          ELSE Returned(Some([downstream |-> down.rows, upstream |-> up.rows]), downlog \o uplog)

(***************************************************************************)
(* send_to_influx(stats, config).  now is datetime.utcnow() as formatted   *)
(* on entry; write_raises tells whether write_api.write raises.  The       *)
(* result tells whether an exception left the function and which series    *)
(* the sink accepted (None when none was written).                         *)
(***************************************************************************)
DownConverts(r) ==
    /\ IntOk(r.frequency) /\ FloatOk(r.power) /\ FloatOk(r.snr)
    /\ IntOk(r.corrected) /\ IntOk(r.uncorrectables) /\ IntOk(r.channel_id)

UpConverts(r) == IntOk(r.frequency) /\ FloatOk(r.power) /\ IntOk(r.channel_id)

\* Mutant: the downstream points are stamped by a later reading of the clock.
DownPoint_OwnClock(r, now) ==
    [measurement |-> "downstream_statistics",
     time |-> now \o "+1s",
     fields |-> [frequency |-> IntVal(r.frequency),
                 power |-> FloatVal(r.power),
                 snr |-> FloatVal(r.snr),
                 corrected |-> IntVal(r.corrected),
                 uncorrectables |-> IntVal(r.uncorrectables)],
     tags |-> [channel_id |-> IntVal(r.channel_id), modulation |-> r.modulation]]

DownPoint(r, now) ==
    [measurement |-> "downstream_statistics",
     time |-> now,
     fields |-> [frequency |-> IntVal(r.frequency),
                 power |-> FloatVal(r.power),
                 snr |-> FloatVal(r.snr),
                 corrected |-> IntVal(r.corrected),
                 uncorrectables |-> IntVal(r.uncorrectables)],
     tags |-> [channel_id |-> IntVal(r.channel_id), modulation |-> r.modulation]]

UpPoint(r, now) ==
    [measurement |-> "upstream_statistics",
     time |-> now,
     fields |-> [frequency |-> IntVal(r.frequency), power |-> FloatVal(r.power)],
     tags |-> [channel_id |-> IntVal(r.channel_id), channel_type |-> r.channel_type]]

send_to_influx(st, cfg, now, write_raises) ==
    IF \E i \in 1..Len(st.downstream) : ~DownConverts(st.downstream[i]) THEN Raised(<<>>) \* ValueError
    ELSE IF \E i \in 1..Len(st.upstream) : ~UpConverts(st.upstream[i]) THEN Raised(<<>>) \* ValueError
    ELSE LET series == [i \in 1..Len(st.downstream) |-> DownPoint(st.downstream[i], now)]
                       \o [i \in 1..Len(st.upstream) |-> UpPoint(st.upstream[i], now)]
         IN  IF write_raises THEN Returned(None, <<WriteError>>) \* caught: logged, return
             ELSE Returned(Some(series), <<>>)

\* The values datetime.utcnow() takes.
Times == {"2019-08-01T00:00:00Z", "2019-08-01T00:05:00Z"}

(***************************************************************************)
(* main().  pc is the place in the loop: "top" (line 45), "auth" (the      *)
(* while of line 53), "fetch" (line 62), "parse" (line 73), "dispatch"     *)
(* (line 84), "terminated" (the process has ended).  html and stats hold   *)
(* main's locals from their assignment to their one use.  ev is the list   *)
(* of events of the last step, sent the series the sink accepted in it.    *)
(* sinceCred (sinceHtml) follows the calls of get_credential (get_html)    *)
(* against time.sleep: "never" called, "called" with no sleep since,       *)
(* "slept" since the last call, "undelayed" once two calls have followed   *)
(* each other with no sleep in between.  authResp is the modem's answer to *)
(* the authentication request of the last step (None when the step made    *)
(* none).  rawHtml and repairs belong to the markup repair taken alone     *)
(* (see RepairMarkup) and stay empty in main.                              *)
(***************************************************************************)
RECURSIVE Since(_, _, _)
Since(gap, op, events) ==
    IF events = <<>> THEN gap
    ELSE Since(IF gap = "undelayed" THEN gap
               ELSE IF Head(events).op = op THEN (IF gap = "called" THEN "undelayed" ELSE "called")
               ELSE IF Head(events).op = "sleep" /\ gap = "called" THEN "slept"
               ELSE gap,
               op, Tail(events))

\* What every step does with the events it performs.
Emit(events) ==
    /\ ev' = events
    /\ sinceCred' = Since(sinceCred, "get_credential", events)
    /\ sinceHtml' = Since(sinceHtml, "get_html", events)

\* An uncaught exception after the events done: traceback, exit status 1.
Crash(events) ==
    /\ Emit(events \o <<Event("traceback", "", <<>>)>>)
    /\ pc' = "terminated"
    /\ exitCode' = Some(1)

\* error_exit(...) after the events done: sys.exit(1).
Exit(events, cfg, sleep) ==
    /\ Emit(events \o error_exit(cfg, sleep))
    /\ pc' = "terminated"
    /\ exitCode' = Some(1)

\* Mutant: every cycle starts with a sleep, the first too.
CycleAlwaysSleeps(cfg, isFirst) == <<SleepEvent(cfg.sleep_interval)>>

\* Mutant: no cycle starts with a sleep.
CycleNoSleep(cfg, isFirst) == <<>>

\* Lines 46-49: the sleep that starts every cycle but the first.
CycleSleep(cfg, isFirst) == IF isFirst THEN <<>> ELSE <<SleepEvent(cfg.sleep_interval)>>

\* Mutant: every cycle authenticates again.
NeedsCredentialAlways(cfg, cred) == cfg.modem_auth_required

\* Mutant: authentication happens in the first cycle only.
NeedsCredentialOnce(cfg, cred) == cfg.modem_auth_required /\ cred = None /\ first

\* Lines 52-53: "if config['modem_auth_required']: while not credential".
NeedsCredential(cfg, cred) == cfg.modem_auth_required /\ cred = None

\* Mutant: the authentication loop retries at once.
AuthRetryNoSleep(cfg) == <<>>

\* Lines 57-59: the sleep after a failed authentication.
AuthRetrySleep(cfg) == <<SleepEvent(cfg.sleep_interval)>>

\* Mutant: the credential is kept after a fetch that yielded no page.
AfterHtmlErrorKeeps(cfg, cred) == cred

\* Lines 67-69: the credential after a fetch that yielded no page.
AfterHtmlError(cfg, cred) == IF cfg.clear_auth_token_on_html_error THEN None ELSE cred

\* Mutant: only None counts as no page.
NoHtmlOnlyNone(h) == h = None

\* Line 63, "not html": None and the empty string are falsy.
NoHtml(h) == h = None \/ h.v = <<>>

\* Mutant: a snapshot counts as empty only when there is none.
NoStatsOnlyNone(st) == st = None

\* Line 78, "not stats or (not stats['upstream'] and not stats['downstream'])".
NoStats(st) == st = None \/ (st.v.upstream = <<>> /\ st.v.downstream = <<>>)

Init ==
    /\ config \in Configs
    /\ pc = "top"
    /\ first = TRUE
    /\ credential = None
    /\ html = None
    /\ stats = None
    /\ exitCode = None
    /\ ev = <<>>
    /\ sent = None
    /\ sinceCred = "never"
    /\ sinceHtml = "never"
    /\ authResp = None
    /\ rawHtml = None
    /\ repairs = <<>>

\* Lines 45-53: the sleep of every cycle but the first, then the test of
\* whether to authenticate.
LoopTop ==
    /\ pc = "top"
    /\ Emit(CycleSleep(config, first))
    /\ first' = FALSE
    /\ pc' = IF NeedsCredential(config, credential) THEN "auth" ELSE "fetch"
    /\ sent' = None
    /\ authResp' = None
    /\ UNCHANGED <<config, credential, html, stats, exitCode, rawHtml, repairs>>

\* Lines 54-59: one pass of the authentication loop.
GetCredential ==
    /\ pc = "auth"
    /\ \E resp \in AuthResponses :
        LET r == get_credential(config, resp)
            call == <<Event("get_credential", Ret(r), r.log)>>
        IN  IF r.raised
            THEN Crash(call) /\ authResp' = None /\ UNCHANGED credential
            ELSE /\ credential' = r.value
                 /\ authResp' = Some(resp)
                 /\ IF r.value = None /\ config.exit_on_auth_error
                    THEN Exit(call, Some(config), TRUE)
                    ELSE IF r.value = None
                    THEN /\ Emit(call \o AuthRetrySleep(config))
                         /\ pc' = "auth"
                         /\ UNCHANGED exitCode
                    ELSE /\ Emit(call)
                         /\ pc' = "fetch"
                         /\ UNCHANGED exitCode
    /\ sent' = None
    /\ UNCHANGED <<config, first, html, stats, rawHtml, repairs>>

\* Lines 62-70: the fetch and the handling of its failure.
Fetch ==
    /\ pc = "fetch"
    /\ \E resp \in HtmlResponses :
        LET r == get_html(config, credential, resp)
            call == <<Event("get_html", IF ~r.raised /\ r.value # None /\ r.value.v = <<>> THEN "empty" ELSE Ret(r), r.log)>>
        IN  IF r.raised
            THEN Crash(call) /\ UNCHANGED <<credential, html>>
            ELSE IF NoHtml(r.value)
            THEN IF config.exit_on_html_error
                 THEN Exit(call, Some(config), TRUE) /\ UNCHANGED <<credential, html>>
                 ELSE /\ Emit(call)
                      /\ credential' = AfterHtmlError(config, credential)
                      /\ pc' = "top"
                      /\ UNCHANGED <<exitCode, html>>
            ELSE /\ Emit(call)
                 /\ html' = r.value
                 /\ pc' = "parse"
                 /\ UNCHANGED <<credential, exitCode>>
    /\ sent' = None
    /\ authResp' = None
    /\ UNCHANGED <<config, first, stats, rawHtml, repairs>>

\* Lines 73-81: the parse and the test for an empty snapshot.
Parse ==
    /\ pc = "parse"
    /\ IF config.modem_model = "sb8200"
       THEN LET r == parse_html_sb8200(html.v)
                call == <<Event("parse_html_sb8200", Ret(r), r.log)>>
            IN  IF r.raised
                THEN Crash(call) /\ UNCHANGED stats
                ELSE /\ Emit(call)
                     /\ stats' = IF NoStats(r.value) THEN None ELSE r.value
                     /\ pc' = IF NoStats(r.value) THEN "top" ELSE "dispatch"
                     /\ UNCHANGED exitCode
       ELSE Exit(<<>>, None, FALSE) /\ UNCHANGED stats
    /\ html' = None
    /\ sent' = None
    /\ authResp' = None
    /\ UNCHANGED <<config, first, credential, rawHtml, repairs>>

\* Lines 84-87: the dispatch.
Dispatch ==
    /\ pc = "dispatch"
    /\ IF config.destination = "influxdb"
       THEN \E now \in Times, write_raises \in BOOLEAN :
                LET r == send_to_influx(stats.v, config, now, write_raises)
                    call == <<Event("send_to_influx", Ret(r), r.log)>>
                IN  IF r.raised
                    THEN Crash(call) /\ sent' = None
                    ELSE /\ Emit(call)
                         /\ sent' = r.value
                         /\ pc' = "top"
                         /\ UNCHANGED exitCode
       ELSE Exit(<<>>, None, FALSE) /\ sent' = None
    /\ stats' = None
    /\ authResp' = None
    /\ UNCHANGED <<config, first, credential, html, rawHtml, repairs>>

Next == LoopTop \/ GetCredential \/ Fetch \/ Parse \/ Dispatch

Spec == Init /\ [][Next]_vars

(***************************************************************************)
(* The parser alone: main at line 73 with a fetched page in hand, every    *)
(* page of up to MaxParseRows rows a table, and the one step that parses   *)
(* it.                                                                     *)
(***************************************************************************)
ParsePages == PagesUpTo(MaxParseRows)

InitParse ==
    /\ config \in {c \in Configs : /\ ~c.modem_auth_required /\ c.modem_model = "sb8200"
                                   /\ c.destination = "influxdb" /\ ~c.exit_on_html_error
                                   /\ ~c.clear_auth_token_on_html_error /\ c.sleep_before_exit}
    /\ pc = "parse"
    /\ first = FALSE
    /\ credential = None
    /\ html \in {Some(page) : page \in ParsePages}
    /\ stats = None
    /\ exitCode = None
    /\ ev = <<Event("get_html", "value", <<>>)>>
    /\ sent = None
    /\ sinceCred = "never"
    /\ sinceHtml = "called"
    /\ authResp = None
    /\ rawHtml = None
    /\ repairs = <<>>

NextParse == Parse

SpecParse == InitParse /\ [][NextParse]_vars

(***************************************************************************)
(* The markup repair alone: parse_html_sb8200 at line 281 with the raw     *)
(* text of a page in hand, and the step that applies the repair to the     *)
(* text the last repair returned (to the raw page the first time).         *)
(***************************************************************************)
InitRepair ==
    /\ config \in {c \in Configs : /\ ~c.modem_auth_required /\ c.modem_model = "sb8200"
                                   /\ c.destination = "influxdb" /\ ~c.exit_on_html_error
                                   /\ ~c.clear_auth_token_on_html_error /\ c.sleep_before_exit}
    /\ pc = "parse"
    /\ first = FALSE
    /\ credential = None
    /\ html = None
    /\ stats = None
    /\ exitCode = None
    /\ ev = <<Event("get_html", "value", <<>>)>>
    /\ sent = None
    /\ sinceCred = "never"
    /\ sinceHtml = "called"
    /\ authResp = None
    /\ rawHtml \in {Some(text) : text \in RawPages}
    /\ repairs = <<>>

RepairMarkup ==
    /\ rawHtml # None
    /\ Len(repairs) < MaxRepairs
    /\ repairs' = Append(repairs, repair(IF repairs = <<>> THEN rawHtml.v ELSE repairs[Len(repairs)]))
    /\ UNCHANGED <<config, pc, first, credential, html, stats, exitCode, ev, sent, sinceCred, sinceHtml, authResp, rawHtml>>

NextRepair == RepairMarkup

SpecRepair == InitRepair /\ [][NextRepair]_vars

TypeOK ==
    /\ config \in Configs
    /\ pc \in {"top", "auth", "fetch", "parse", "dispatch", "terminated"}
    /\ first \in BOOLEAN
    /\ exitCode \in {None, Some(1)}
    /\ sinceCred \in {"never", "called", "slept", "undelayed"}
    /\ sinceHtml \in {"never", "called", "slept", "undelayed"}
    /\ authResp \in {None} \cup {Some(resp) : resp \in AuthResponses}

(***************************************************************************)
(* What the last step did, read from its events.                           *)
(***************************************************************************)
\* The step called op first.
Called(events, op) == events # <<>> /\ events[1].op = op

\* The step's call of op returned None or a falsy value.
Failed(events, op) == Called(events, op) /\ events[1].ret \in {"None", "empty"}

\* The step ended the process through sys.exit.
Exited(events) == events # <<>> /\ events[Len(events)].op = "sys.exit"

\* The step ended the process with an uncaught exception.
Crashed(events) == events # <<>> /\ events[Len(events)].op = "traceback"

Calls(events, op) == Cardinality({i \in 1..Len(events) : events[i].op = op})

(***************************************************************************)
(* C1: with modem_auth_required and no credential held, a failed           *)
(* get_credential (one that returns None) is followed, when                *)
(* exit_on_auth_error is false, by exactly one sleep of sleep_interval and *)
(* then by the next get_credential, never by the fetch; when               *)
(* exit_on_auth_error is true the first failure ends the process with exit *)
(* code 1 and nothing runs after it.  The fetch is reached under           *)
(* modem_auth_required only with a credential.                             *)
(***************************************************************************)
C1_Step ==
    /\ pc = "auth" => /\ config.modem_auth_required /\ credential = None
                      /\ Called(ev', "get_credential") /\ Calls(ev', "get_credential") = 1
    /\ (pc = "auth" /\ Failed(ev', "get_credential")) =>
           IF config.exit_on_auth_error
           THEN pc' = "terminated" /\ exitCode' = Some(1) /\ Exited(ev')
           ELSE /\ ev' = <<ev'[1], SleepEvent(config.sleep_interval)>>
                /\ pc' = "auth"
                /\ credential' = None
    /\ (pc' = "fetch" /\ config.modem_auth_required) => credential' # None
    /\ pc = "terminated" => FALSE

C1_AuthRetryOrExit == [][C1_Step]_vars

\* A failed attempt has been followed by its sleep and the loop is about to
\* authenticate again.
C1_Witness ==
    /\ pc = "auth" /\ Failed(ev, "get_credential") /\ ~config.exit_on_auth_error
    /\ sinceCred = "slept"

(***************************************************************************)
(* C2: when get_html yields no page (it returns None, or an empty body),   *)
(* the process ends with exit code 1 if exit_on_html_error is true;        *)
(* otherwise the step does nothing else (no parse, no dispatch), the loop  *)
(* is back at its top, and the step from the top of every cycle but the    *)
(* first is exactly one sleep of sleep_interval before anything else.      *)
(***************************************************************************)
C2_Step ==
    /\ (pc = "fetch" /\ Failed(ev', "get_html")) =>
           IF config.exit_on_html_error
           THEN pc' = "terminated" /\ exitCode' = Some(1) /\ Exited(ev')
           ELSE /\ Len(ev') = 1
                /\ pc' = "top" /\ ~first'
                /\ html' = None /\ stats' = None /\ sent' = None /\ exitCode' = None
    /\ (pc = "top" /\ ~first) =>
           /\ ev' = <<SleepEvent(config.sleep_interval)>>
           /\ pc' \in {"auth", "fetch"}
    /\ pc' = "parse" => Called(ev', "get_html") /\ ev'[1].ret = "value" /\ html' # None
    /\ pc' = "dispatch" => Called(ev', "parse_html_sb8200") /\ stats' # None

C2_FetchFailure == [][C2_Step]_vars

\* A fetch has just failed without ending the process.
C2_Witness == pc = "top" /\ Failed(ev, "get_html") /\ ~config.exit_on_html_error

(***************************************************************************)
(* C3 as stated: after a fetch that returned the login page, if the        *)
(* process keeps running, no credential is held.                           *)
(***************************************************************************)
LoginPageFetched(events) ==
    /\ Called(events, "get_html")
    /\ \E i \in 1..Len(events[1].log) : events[1].log[i] = LoginPageError

C3_Original == (LoginPageFetched(ev) /\ pc # "terminated") => credential = None

(***************************************************************************)
(* C3 amended: after a fetch that returned the login page, if the process  *)
(* keeps running, the loop is back at its top and the credential is absent *)
(* when clear_auth_token_on_html_error is true, and otherwise unchanged.   *)
(***************************************************************************)
C3_Step ==
    (pc = "fetch" /\ LoginPageFetched(ev') /\ pc' # "terminated") =>
        /\ pc' = "top"
        /\ credential' = IF config.clear_auth_token_on_html_error THEN None ELSE credential

C3_ClearedIfConfigured == [][C3_Step]_vars

\* A held credential has been discarded after a login page.
C3_Witness ==
    /\ LoginPageFetched(ev) /\ pc = "top"
    /\ config.modem_auth_required /\ config.clear_auth_token_on_html_error
    /\ credential = None

(***************************************************************************)
(* C4: a fetch that fails without ending the process, under                *)
(* clear_auth_token_on_html_error, leaves no credential; with              *)
(* modem_auth_required the next cycle then enters the authentication loop, *)
(* which is left for the fetch only by a get_credential that returned a    *)
(* credential, the one the fetch then uses.                                *)
(***************************************************************************)
C4_Step ==
    /\ (pc = "fetch" /\ Failed(ev', "get_html") /\ pc' # "terminated"
           /\ config.clear_auth_token_on_html_error) =>
           credential' = None /\ pc' = "top"
    /\ (pc = "top" /\ config.modem_auth_required /\ credential = None) => pc' = "auth"
    /\ pc = "auth" => pc' \in {"auth", "fetch", "terminated"}
    /\ (pc = "auth" /\ pc' = "fetch") =>
           /\ ev' = <<Event("get_credential", "value", <<>>)>>
           /\ credential = None /\ credential' # None
    /\ (pc' = "fetch" /\ config.modem_auth_required) => credential' # None

C4_ReauthAfterClear == [][C4_Step]_vars

\* The credential was discarded after a failed fetch, and a new one has just
\* been obtained for the next fetch.
C4_Witness ==
    /\ pc = "fetch" /\ config.clear_auth_token_on_html_error
    /\ Called(ev, "get_credential") /\ credential # None
    /\ sinceHtml = "slept"

(***************************************************************************)
(* C5 as stated: no call of send_to_influx ends the process.               *)
(***************************************************************************)
C5_DispatchNeverFatal == ~(pc = "terminated" /\ Called(ev, "send_to_influx"))

(***************************************************************************)
(* C6 as stated: the process ends only in a step in which get_credential   *)
(* failed under exit_on_auth_error or get_html failed under                *)
(* exit_on_html_error (so never when both flags are false).                *)
(***************************************************************************)
PolicyExit(events) ==
    \/ Failed(events, "get_credential") /\ config.exit_on_auth_error
    \/ Failed(events, "get_html") /\ config.exit_on_html_error

C6_OnlyPolicyExits == pc = "terminated" => (Exited(ev) /\ PolicyExit(ev))

(***************************************************************************)
(* C7 as stated: whenever error_exit ends the process, the number of       *)
(* sleeps between the call of error_exit and sys.exit(1) is one if         *)
(* sleep_before_exit is true and zero if it is false.                      *)
(***************************************************************************)
SleepsOfExit(events) ==
    Cardinality({i \in 1..Len(events) :
        /\ events[i] = SleepEvent(config.sleep_interval)
        /\ \E j \in 1..(i - 1) : events[j].op = "error_exit"})

C7_Original ==
    (pc = "terminated" /\ Exited(ev)) =>
        /\ exitCode = Some(1)
        /\ SleepsOfExit(ev) = IF config.sleep_before_exit THEN 1 ELSE 0

(***************************************************************************)
(* C7 amended: when error_exit ends the process because authentication     *)
(* failed under exit_on_auth_error or the fetch failed under               *)
(* exit_on_html_error, there is one sleep of sleep_interval before         *)
(* sys.exit(1) if sleep_before_exit is true and none if it is false; when  *)
(* it ends the process because modem_model or destination is not           *)
(* supported, there is no sleep, whatever sleep_before_exit is.            *)
(***************************************************************************)
C7_SleepBeforePolicyExit ==
    (pc = "terminated" /\ Exited(ev)) =>
        /\ exitCode = Some(1)
        /\ Sleeps(ev) = SleepsOfExit(ev)
        /\ SleepsOfExit(ev) = IF PolicyExit(ev) /\ config.sleep_before_exit THEN 1 ELSE 0

\* A failed fetch has ended the process after the sleep before exit.
C7_Witness ==
    /\ pc = "terminated" /\ Exited(ev) /\ Failed(ev, "get_html")
    /\ config.sleep_before_exit /\ SleepsOfExit(ev) = 1

(***************************************************************************)
(* C8: no two calls of get_credential, and no two calls of get_html,       *)
(* follow each other without a sleep in between.                           *)
(***************************************************************************)
C8_NoRetryWithoutDelay == sinceCred # "undelayed" /\ sinceHtml # "undelayed"

\* get_html has just been called again, in a cycle after the one that
\* authenticated: a sleep lies between the calls.
C8_Witness ==
    /\ Called(ev, "get_html") /\ sinceHtml = "called" /\ sinceCred = "slept"
    /\ config.modem_auth_required

(***************************************************************************)
(* C9: when parse_html_sb8200 returns a snapshot with both lists empty     *)
(* (both parse errors logged), the step does nothing else: the process     *)
(* goes on, nothing is handed to send_to_influx or the sink, and the loop  *)
(* is back at its top, whose next step is the sleep of the cycle.          *)
(***************************************************************************)
BothEmpty(events) ==
    /\ Called(events, "parse_html_sb8200")
    /\ events[1].ret = "value"
    /\ events[1].log = <<NoDownstreamError, NoUpstreamError>>

C9_Step ==
    /\ (pc = "parse" /\ BothEmpty(ev')) =>
           /\ Len(ev') = 1
           /\ pc' = "top" /\ ~first'
           /\ exitCode' = None /\ stats' = None /\ sent' = None
    /\ (pc = "top" /\ ~first) => ev' = <<SleepEvent(config.sleep_interval)>>
    /\ pc = "dispatch" => stats # None /\ ~(stats.v.downstream = <<>> /\ stats.v.upstream = <<>>)
    /\ Called(ev', "send_to_influx") => pc = "dispatch"

C9_EmptySnapshotSkipped == [][C9_Step]_vars

\* An empty snapshot has just been parsed.
C9_Witness == BothEmpty(ev) /\ pc = "top"

(***************************************************************************)
(* C10 as stated: when the downstream table has no valid row (a row that   *)
(* is no header row and whose channel id is an integer) and the upstream   *)
(* table has at least one, on a page whose rows all have their cells, the  *)
(* parse returns the upstream records of those rows with the downstream    *)
(* error logged, and main goes on to dispatch them.                        *)
(***************************************************************************)
ValidRows(rows, idcell) ==
    SelectSeq(rows, LAMBDA row : ~row.th /\ Len(row.td) >= idcell /\ isdigit(strip(row.td[idcell])))

FullRows(rows, ncells) == \A i \in 1..Len(rows) : rows[i].th \/ Len(rows[i].td) >= ncells

C10_Step ==
    (/\ pc = "parse" /\ config.modem_model = "sb8200"
     /\ Len(Tables(html.v)) >= 3
     /\ FullRows(Tables(html.v)[2].rows, 8) /\ FullRows(Tables(html.v)[3].rows, 7)
     /\ ValidRows(Tables(html.v)[2].rows, 1) = <<>>
     /\ ValidRows(Tables(html.v)[3].rows, 2) # <<>>)
    => /\ ev' = <<Event("parse_html_sb8200", "value", <<NoDownstreamError>>)>>
       /\ pc' = "dispatch"
       /\ stats' # None
       /\ stats'.v.downstream = <<>>
       /\ Len(stats'.v.upstream) = Len(ValidRows(Tables(html.v)[3].rows, 2))

C10_UpstreamOnlyDispatched == [][C10_Step]_vars

(***************************************************************************)
(* C11 as stated: on a page whose rows all have their cells, the parse     *)
(* returns, for each direction, one record for each row of the table that  *)
(* is no header row and whose own channel-id cell is a digit string, in    *)
(* the order of the rows, and no other record.                             *)
(***************************************************************************)
ParsedList(st, direction) == IF st = None THEN <<>> ELSE st.v[direction]

ChannelIds(records) == [i \in 1..Len(records) |-> records[i].channel_id]

OwnIds(rows, idcell) ==
    LET valid == ValidRows(rows, idcell) IN [i \in 1..Len(valid) |-> strip(valid[i].td[idcell])]

C11_Step ==
    (/\ pc = "parse" /\ config.modem_model = "sb8200"
     /\ Len(Tables(html.v)) >= 3
     /\ FullRows(Tables(html.v)[2].rows, 8) /\ FullRows(Tables(html.v)[3].rows, 7))
    => /\ pc' \in {"top", "dispatch"}
       /\ ChannelIds(ParsedList(stats', "downstream")) = OwnIds(Tables(html.v)[2].rows, 1)
       /\ ChannelIds(ParsedList(stats', "upstream")) = OwnIds(Tables(html.v)[3].rows, 2)

C11_OwnChannelIdFilter == [][C11_Step]_vars

(***************************************************************************)
(* C12 as stated: a dispatch to InfluxDB never ends the cycle abnormally   *)
(* over a record: the records whose fields all convert are the series      *)
(* written (unless the write itself fails, which is logged), a record with *)
(* a field that does not convert is left out alone, and main goes on to    *)
(* the next cycle.                                                         *)
(***************************************************************************)
Convertible(st) == Len(SelectSeq(st.downstream, DownConverts)) + Len(SelectSeq(st.upstream, UpConverts))

C12_Step ==
    (pc = "dispatch" /\ config.destination = "influxdb")
    => /\ pc' = "top"
       /\ Called(ev', "send_to_influx")
       /\ ev'[1].log = <<>> => (sent' # None /\ Len(sent'.v) = Convertible(stats.v))

C12_BadRecordDroppedAlone == [][C12_Step]_vars

(***************************************************************************)
(* C13 as stated: the parse of a page with fewer than three tables does    *)
(* not raise: it returns, the lists of the missing directions are empty,   *)
(* and main carries on (to the next cycle or to the dispatch).             *)
(***************************************************************************)
C13_Step ==
    (pc = "parse" /\ config.modem_model = "sb8200" /\ Len(Tables(html.v)) < 3)
    => /\ pc' \in {"top", "dispatch"}
       /\ Called(ev', "parse_html_sb8200") /\ ev'[1].ret = "value"
       /\ ParsedList(stats', "upstream") = <<>>
       /\ Len(Tables(html.v)) < 2 => ParsedList(stats', "downstream") = <<>>

C13_MissingTableNotFatal == [][C13_Step]_vars

(***************************************************************************)
(* C14: in both authentication modes get_credential returns a credential   *)
(* only when the request did not raise, the status was 200 and the body    *)
(* does not contain "Password:" (the token is then that body); in every    *)
(* other case it returns None, so that main never holds a credential       *)
(* whose token is a login page.                                            *)
(***************************************************************************)
GoodAnswer(resp) == ~resp.raises /\ resp.status_code = 200 /\ ~Contains(resp.text, "Password:")

C14_CredentialOnlyFromGoodAnswer ==
    /\ credential # None => ~Contains(credential.v.token, "Password:")
    /\ authResp # None =>
        /\ Called(ev, "get_credential")
        /\ ev[1].ret \in {"None", "value"}
        /\ ev[1].ret = "value" => (GoodAnswer(authResp.v) /\ credential # None /\ credential.v.token = authResp.v.text)
        /\ ev[1].ret = "None" => credential = None
        /\ ~GoodAnswer(authResp.v) => (ev[1].ret = "None" /\ credential = None)

\* The new mode answered with status 200, a session cookie and the login
\* page as the body: no credential is returned.
C14_Witness ==
    /\ authResp # None /\ ~authResp.v.raises /\ authResp.v.status_code = 200
    /\ Contains(authResp.v.text, "Password:")
    /\ authResp.v.sessionId # None
    /\ config.modem_new_auth
    /\ credential = None

(***************************************************************************)
(* C15: all the points written in one cycle, downstream and upstream,      *)
(* carry the same timestamp (the clock is read once, on entry of           *)
(* send_to_influx), and it is a reading of the clock.                      *)
(***************************************************************************)
C15_OneTimestampPerCycle ==
    sent # None =>
        /\ \A i, j \in 1..Len(sent.v) : sent.v[i].time = sent.v[j].time
        /\ \A i \in 1..Len(sent.v) : sent.v[i].time \in Times

\* A written series with a downstream and an upstream point.
C15_Witness ==
    /\ sent # None
    /\ \E i, j \in 1..Len(sent.v) :
        /\ sent.v[i].measurement = "downstream_statistics"
        /\ sent.v[j].measurement = "upstream_statistics"

(***************************************************************************)
(* C16: the first cycle starts with no sleep, so that the first network    *)
(* call (get_credential or get_html) is preceded by none; every later      *)
(* cycle starts with exactly one sleep of sleep_interval, made before the  *)
(* cycle's first network call.                                             *)
(***************************************************************************)
NetworkCall(events) == Called(events, "get_credential") \/ Called(events, "get_html")

C16_Step ==
    /\ first => (pc = "top" /\ ev = <<>> /\ sinceCred = "never" /\ sinceHtml = "never")
    /\ pc = "top" =>
        /\ ev' = IF first THEN <<>> ELSE <<SleepEvent(config.sleep_interval)>>
        /\ ~first'
        /\ pc' \in {"auth", "fetch"}
    /\ pc \in {"auth", "fetch"} => NetworkCall(ev')
    /\ (\E i \in 1..Len(ev') : ev'[i].op \in {"get_credential", "get_html"}) => pc \in {"auth", "fetch"}

C16_SleepStartsLaterCycles == [][C16_Step]_vars

\* A later cycle about to fetch again, after its sleep.
C16_Witness ==
    /\ pc = "fetch" /\ ~first
    /\ ev = <<SleepEvent(config.sleep_interval)>>
    /\ sinceHtml = "slept"

(***************************************************************************)
(* C17 as stated: a fetch that returns a page, the parse and the dispatch  *)
(* leave the credential unchanged and call no get_credential; no           *)
(* get_credential is called while a credential is held; the credential     *)
(* changes only when a get_credential called with none held returns one,   *)
(* or when it is discarded after a fetch that returned the login page.     *)
(***************************************************************************)
CredentialKept ==
    /\ ((pc = "fetch" /\ pc' = "parse") \/ pc \in {"parse", "dispatch"}) =>
        (credential' = credential /\ \A i \in 1..Len(ev') : ev'[i].op # "get_credential")
    /\ (pc = "top" /\ credential # None) => pc' = "fetch"
    /\ Called(ev', "get_credential") => credential = None

Obtained == credential = None /\ credential' # None /\ Called(ev', "get_credential") /\ ev'[1].ret = "value"

C17_OriginalStep ==
    /\ CredentialKept
    /\ credential' # credential => (Obtained \/ (credential' = None /\ LoginPageFetched(ev')))

C17_Original == [][C17_OriginalStep]_vars

(***************************************************************************)
(* C17 amended: as stated, but the credential is discarded after every     *)
(* fetch that yielded no page (a failed request, a status other than 200,  *)
(* an undecodable or empty body, the login page) when the process keeps    *)
(* running and clear_auth_token_on_html_error is set.                      *)
(***************************************************************************)
C17_Step ==
    /\ CredentialKept
    /\ credential' # credential =>
        \/ Obtained
        \/ /\ credential' = None
           /\ Failed(ev', "get_html")
           /\ config.clear_auth_token_on_html_error /\ ~config.exit_on_html_error
           /\ pc' = "top"

C17_CredentialKeptUntilFetchFails == [][C17_Step]_vars

\* A later cycle fetched a page with the credential of an earlier one.
C17_Witness ==
    /\ pc = "parse" /\ credential # None
    /\ Called(ev, "get_html")
    /\ sinceCred = "slept"

(***************************************************************************)
(* C18 as stated: for every page, the repair applied to the repaired page  *)
(* returns it unchanged.                                                   *)
(***************************************************************************)
C18_Original == Len(repairs) >= 2 => repairs[2] = repairs[1]

(***************************************************************************)
(* C18 amended: for every page with at most RepairCount occurrences of the *)
(* broken header, none of them followed by one more </tr>, the repair      *)
(* applied to the repaired page returns it unchanged.                      *)
(***************************************************************************)
RECURSIVE Occurrences(_, _)
Occurrences(s, pat) ==
    IF Len(s) < Len(pat) THEN 0
    ELSE IF SubSeq(s, 1, Len(pat)) = pat
         THEN 1 + Occurrences(SubSeq(s, Len(pat) + 1, Len(s)), pat)
         ELSE Occurrences(SubSeq(s, 2, Len(s)), pat)

C18_RepairIdempotentOnRealPages ==
    (/\ Len(repairs) >= 2
     /\ Occurrences(rawHtml.v, BrokenHeader) <= RepairCount
     /\ ~Contains(rawHtml.v, BrokenHeader \o "</tr>"))
    => repairs[2] = repairs[1]

\* A page with two broken headers, repaired twice.
C18_Witness ==
    /\ Len(repairs) >= 2
    /\ Occurrences(rawHtml.v, BrokenHeader) = RepairCount
    /\ ~Contains(rawHtml.v, BrokenHeader \o "</tr>")
    /\ repairs[1] # rawHtml.v

(***************************************************************************)
(* C19: get_html never reads a credential that is absent.  Whenever main   *)
(* is about to call get_html with modem_auth_required true it holds a      *)
(* credential, returned by a get_credential; with modem_auth_required      *)
(* false get_credential is never called, no credential is held, and the    *)
(* request get_html builds is the same whatever the credential is.         *)
(***************************************************************************)
PlainRequest == Returned(Some([url |-> "", cookies |-> None]), <<>>)

C19_NoAbsentCredentialRead ==
    /\ pc = "fetch" => ~html_request(config, credential).raised
    /\ Called(ev, "get_html") => ev[1].ret # "raised"
    /\ (pc = "fetch" /\ config.modem_auth_required) => (credential # None /\ sinceCred # "never")
    /\ ~config.modem_auth_required =>
        /\ sinceCred = "never" /\ credential = None /\ ~Called(ev, "get_credential")
        /\ pc = "fetch" =>
            \A cred \in {None, Some([token |-> "tok1", cookie |-> None])} : html_request(config, cred) = PlainRequest

\* get_html has returned a page to a request made with the credential, in
\* the mode that reads both the token and the cookie.
C19_Witness ==
    /\ pc = "parse" /\ Called(ev, "get_html")
    /\ config.modem_auth_required /\ config.modem_new_auth
    /\ credential # None

(***************************************************************************)
(* C20: whenever parse_html_sb8200 returns, the upstream list is empty if  *)
(* the downstream list is, and the upstream records are those of the rows  *)
(* (header rows apart) met while the channel id left by the row examined   *)
(* before is a digit string: the id of the last downstream row that is no  *)
(* header row for the first upstream row, the id of the upstream row       *)
(* included last after that.  The row's own id plays no part.              *)
(***************************************************************************)
DataRows(rows) == SelectSeq(rows, LAMBDA row : ~row.th)

\* The ids of the rows of rows, from row i on, included when left is the id
\* left by the row examined before.
RECURSIVE IncludedByLeftId(_, _, _)
IncludedByLeftId(left, rows, i) ==
    IF i > Len(rows) \/ ~isdigit(left) THEN <<>>
    ELSE <<strip(rows[i].td[2])>> \o IncludedByLeftId(strip(rows[i].td[2]), rows, i + 1)

C20_Step ==
    (/\ pc = "parse" /\ config.modem_model = "sb8200"
     /\ Len(Tables(html.v)) >= 3
     /\ pc' # "terminated")
    => LET down == DataRows(Tables(html.v)[2].rows)
           up == DataRows(Tables(html.v)[3].rows)
       IN  /\ ParsedList(stats', "downstream") = <<>> => ParsedList(stats', "upstream") = <<>>
           /\ ChannelIds(ParsedList(stats', "upstream")) =
                  IF up = <<>> THEN <<>> ELSE IncludedByLeftId(strip(down[Len(down)].td[1]), up, 1)

====
